---- MODULE Spec2Model ----
(***************************************************************************)
(* prizm-service-ai: the RAG ingestion pipeline (download, extraction,     *)
(* chunking, embedding, upsert, callback), the per-workspace vector index  *)
(* (upsert, scoped delete, scoped search) and the chat flow reading it.    *)
(***************************************************************************)
EXTENDS Bags, FiniteSets, Integers, Sequences, TLC

(* ------------------------------ bounds --------------------------------- *)

\* number of ingest requests the upstream server issues in one behaviour
MaxJobs == 2
MaxAffix == 2
MaxCalls == 3

Jobs == 1..MaxJobs

(* ------------------------- program constants --------------------------- *)

chunk_size == 1000
chunk_overlap == 200
MinTextLen == 10
vector_size == 1536
MaxSources == 3
PreviewLen == 200
TitleLimit == 50
TitleKeep == 47

(* ------------------------------ inputs --------------------------------- *)

\* Content of the object store: storage key -> extracted-text shape of the
\* blob (tag = which document, len = len(text), slen = len(text.strip())).
\* Key "k0" is absent from the bucket.
ObjectStore ==
    [k \in {"k1", "k2", "k3"} |->
        CASE k = "k1" -> [tag |-> 1, len |-> 2600, slen |-> 2600]
          [] k = "k2" -> [tag |-> 2, len |-> 150, slen |-> 150]
          [] k = "k3" -> [tag |-> 3, len |-> 12, slen |-> 9]]

\* ProcessRAGRequest bodies the upstream server may send
Requests ==
    { [workspace_id |-> 1,  file_id |-> 1,  file_key |-> "k1", file_name |-> "a.txt"],
      [workspace_id |-> 1,  file_id |-> 1,  file_key |-> "k2", file_name |-> "a.txt"],
      [workspace_id |-> 11, file_id |-> 1,  file_key |-> "k1", file_name |-> "a.PDF"],
      [workspace_id |-> 1,  file_id |-> 11, file_key |-> "k2", file_name |-> "b.docx"],
      [workspace_id |-> 11, file_id |-> 11, file_key |-> "k3", file_name |-> "c.txt"],
      [workspace_id |-> 11, file_id |-> 1,  file_key |-> "k0", file_name |-> "d.md"],
      [workspace_id |-> 11, file_id |-> 11, file_key |-> "k2", file_name |-> "e.csv"] }

\* AIChatRequest fields the upstream server may send
Queries == {[tag |-> 1, pos |-> 0, len |-> 20], [tag |-> 2, pos |-> 1, len |-> 20]}
Languages == {"ko", "en", "fr"}
SearchLimits == {1, 5}

WorkspaceIds == {r.workspace_id : r \in Requests}
FileIds == {r.file_id : r \in Requests}

NoReq == [workspace_id |-> 0, file_id |-> 0, file_key |-> "", file_name |-> ""]
NoText == [tag |-> 0, len |-> 0, slen |-> 0]
NoResult == [chunks_count |-> -1, vectors_count |-> -1]

(* --------------------------- pure functions ---------------------------- *)

Abs(n) == IF n < 0 THEN 0 - n ELSE n

Min(a, b) == IF a < b THEN a ELSE b

\* os.path.splitext(file_name)[1].lower()
Extension(file_name) ==
    CASE file_name = "a.txt"  -> ".txt"
      [] file_name = "a.PDF"  -> ".pdf"
      [] file_name = "b.docx" -> ".docx"
      [] file_name = "c.txt"  -> ".txt"
      [] file_name = "d.md"   -> ".md"
      [] file_name = "e.csv"  -> ".csv"
      [] OTHER -> ""

\* the extension branches of extract_text_from_file
SupportedExtensions == {".pdf", ".docx", ".xlsx", ".pptx", ".txt"}

\* a length check on the text as extracted, without strip()
TooShortUnstripped(t) == t.len = 0 \/ t.len < MinTextLen

\* not text or len(text.strip()) < 10
TooShort(t) == t.len = 0 \/ t.slen < MinTextLen

\* number of pieces of RecursiveCharacterTextSplitter(chunk_size, chunk_overlap)
ChunkCount(t) ==
    IF t.slen = 0 THEN 0
    ELSE IF t.len <= chunk_size THEN 1
    ELSE ((t.len - chunk_size) + (chunk_size - chunk_overlap) - 1)
             \div (chunk_size - chunk_overlap) + 1

\* chunk_text: the ordered pieces; a piece is identified by its document,
\* its position in the split and its length
chunk_text(t) ==
    [i \in 1..ChunkCount(t) |->
        [tag |-> t.tag, pos |-> i - 1,
         len |-> IF i < ChunkCount(t) THEN chunk_size
                 ELSE t.len - (chunk_size - chunk_overlap) * (i - 1)]]

\* text-embedding-3-small: one vector of vector_size dimensions per text
Embed(c) == [size |-> vector_size, dir |-> c.tag + c.pos]

\* create_embeddings: one vector per input text, same order
create_embeddings(texts) == [i \in DOMAIN texts |-> Embed(texts[i])]

\* cosine similarity of the collection (higher = more similar)
Score(q, v) == 0 - Abs(q.dir - v.dir)

\* a point id without the separators
PointIdUnseparated(w, f, i) == ToString(w) \o ToString(f) \o ToString(i)

\* f"{workspace_id}_{file_id}_{chunk['chunk_index']}"
PointId(w, f, i) == ToString(w) \o "_" \o ToString(f) \o "_" \o ToString(i)

\* a chunks_data whose enumeration starts at one
ChunksDataFromOne(cs, es, file_name) ==
    [i \in 1..Min(Len(cs), Len(es)) |->
        [text |-> cs[i], embedding |-> es[i], chunk_index |-> i,
         metadata |-> [file_name |-> file_name, chunk_length |-> cs[i].len]]]

\* chunks_data of process_file_for_rag: enumerate(zip(chunks, embeddings))
ChunksData(cs, es, file_name) ==
    [i \in 1..Min(Len(cs), Len(es)) |->
        [text |-> cs[i], embedding |-> es[i], chunk_index |-> i - 1,
         metadata |-> [file_name |-> file_name, chunk_length |-> cs[i].len]]]

\* the PointStruct list built by insert_vectors
BuildPoints(w, f, data) ==
    [i \in DOMAIN data |->
        [id |-> PointId(w, f, data[i].chunk_index),
         vector |-> data[i].embedding,
         payload |-> [workspace_id |-> w, file_id |-> f,
                      chunk_index |-> data[i].chunk_index,
                      text |-> data[i].text,
                      metadata |-> data[i].metadata]]]

Range(s) == {s[i] : i \in DOMAIN s}

\* an upsert that ignores the point id and adds the points
UpsertAppend(idx, pts) == idx (+) SetToBag(Range(pts))

\* an upsert that keeps the point already stored under an id
UpsertIfAbsent(idx, pts) ==
    LET taken == {p.id : p \in DOMAIN idx}
    IN  idx (+) SetToBag({p \in Range(pts) : p.id \notin taken})

\* an upsert that first deletes every point of the files it writes
UpsertReplaceFile(idx, pts) ==
    LET files == {<<p.payload.workspace_id, p.payload.file_id>> : p \in Range(pts)}
        kept == {p \in DOMAIN idx :
                    <<p.payload.workspace_id, p.payload.file_id>> \notin files}
    IN  [p \in kept |-> idx[p]] (+) SetToBag(Range(pts))

\* client.upsert: insert or replace by point id
Upsert(idx, pts) ==
    LET ids == {p.id : p \in Range(pts)}
        kept == {p \in DOMAIN idx : p.id \notin ids}
    IN  [p \in kept |-> idx[p]] (+) SetToBag(Range(pts))

\* a delete filter that forgets the workspace condition
DeleteFilterFileOnly(p, w, f) == p.payload.file_id = f

\* the Filter of delete_by_file_id: workspace_id AND file_id must match
DeleteFilter(p, w, f) == p.payload.workspace_id = w /\ p.payload.file_id = f

\* client.delete with the filter as points selector
DeleteByFilter(idx, w, f) ==
    [p \in {q \in DOMAIN idx : ~DeleteFilter(q, w, f)} |-> idx[p]]

\* a search without the workspace condition
SearchFilterNone(p, w) == TRUE

\* the Filter of search: workspace_id must match
SearchFilter(p, w) == p.payload.workspace_id = w

\* the rankings client.search may return for candidate set S: at most k
\* points, descending score, ties in any order
RECURSIVE Rankings(_, _, _)
Rankings(S, q, k) ==
    IF k <= 0 \/ S = {} THEN {<< >>}
    ELSE LET best == {p \in S : \A o \in S : Score(q, o.vector) <= Score(q, p.vector)}
         IN  UNION {{<<p>> \o r : r \in Rankings(S \ {p}, q, k - 1)} : p \in best}

\* the dict search builds from one scored point
Hit(p, q) ==
    [id |-> p.id, score |-> Score(q, p.vector), text |-> p.payload.text,
     file_id |-> p.payload.file_id, chunk_index |-> p.payload.chunk_index,
     metadata |-> p.payload.metadata]

\* client.search with the workspace filter: the possible scored-point lists
client_search(idx, w, q, limit) ==
    Rankings({p \in DOMAIN idx : SearchFilter(p, w)}, q, limit)

\* the list of dicts QdrantService.search returns for scored points r
Hits(r, q) == [i \in DOMAIN r |-> Hit(r[i], q)]

\* QdrantService.search: the possible result lists
search(idx, w, q, limit) == {Hits(r, q) : r \in client_search(idx, w, q, limit)}

\* _get_error_message: the apology of the language, Korean by default
ErrorMessage(language) ==
    CASE language = "ko" -> "apology_ko"
      [] language = "en" -> "apology_en"
      [] OTHER -> "apology_ko"

\* _get_system_prompt: the prompt of the language, Korean by default
SystemPrompt(language) ==
    CASE language = "ko" -> "prompt_ko"
      [] language = "en" -> "prompt_en"
      [] OTHER -> "prompt_ko"

\* the context block of generate_response: the ranked chunks with their
\* scores, or the placeholder when there is none
ContextText(context_chunks) ==
    IF context_chunks # << >>
    THEN [i \in DOMAIN context_chunks |->
             <<i, context_chunks[i].score, context_chunks[i].text>>]
    ELSE <<"no_relevant_documents">>

\* a generate_response that lets the exception of the completion call out
generate_response_raising(context_chunks, language, llmOk) ==
    IF llmOk
    THEN [kind |-> "generated", system |-> SystemPrompt(language),
          context |-> ContextText(context_chunks)]
    ELSE [kind |-> "raised", system |-> "", context |-> << >>]

\* generate_response: the context block, then the completion call; the
\* apology when the call raises
generate_response(context_chunks, language, llmOk) ==
    IF llmOk
    THEN [kind |-> "generated", system |-> SystemPrompt(language),
          context |-> ContextText(context_chunks)]
    ELSE [kind |-> "apology", system |-> ErrorMessage(language),
          context |-> << >>]

\* a preview that always ends with the ellipsis
TextPreviewMarked(t) ==
    [tag |-> t.tag, pos |-> t.pos, len |-> Min(t.len, PreviewLen),
     ellipsis |-> TRUE]

\* chunk["text"][:200] + "..." if len(chunk["text"]) > 200 else chunk["text"]
TextPreview(t) ==
    IF t.len > PreviewLen
    THEN [tag |-> t.tag, pos |-> t.pos, len |-> PreviewLen, ellipsis |-> TRUE]
    ELSE [tag |-> t.tag, pos |-> t.pos, len |-> t.len, ellipsis |-> FALSE]

\* a source list that is not cut to the first three
SourcesUncut(context_chunks) ==
    [i \in DOMAIN context_chunks |->
        [file_id |-> context_chunks[i].file_id,
         text_preview |-> TextPreview(context_chunks[i].text),
         score |-> context_chunks[i].score]]

\* the sources of chat: the first three context chunks
Sources(context_chunks) ==
    [i \in 1..Min(MaxSources, Len(context_chunks)) |->
        [file_id |-> context_chunks[i].file_id,
         text_preview |-> TextPreview(context_chunks[i].text),
         score |-> context_chunks[i].score]]

\* a has_context test that is off by one
HasContextAlways(context_chunks) == Len(context_chunks) >= 0

\* has_context of chat
HasContext(context_chunks) == Len(context_chunks) > 0

\* what an exception that escapes a step looks like to chat
Raised == <<[raised |-> TRUE]>>

\* a search_knowledge_base that lets the exception of the embedding call or
\* of the search out
search_knowledge_base_raising(idx, w, query, limit, failed) ==
    IF failed = "none" THEN client_search(idx, w, Embed(query), limit)
    ELSE {Raised}

\* search_knowledge_base: the scored points found for the query, none when
\* the embedding call or the search raises
search_knowledge_base(idx, w, query, limit, failed) ==
    IF failed = "none" THEN client_search(idx, w, Embed(query), limit)
    ELSE {<< >>}

\* the except branch of chat
ChatFailure(language) ==
    [answer |-> [kind |-> "apology", system |-> ErrorMessage(language),
                 context |-> << >>],
     sources |-> << >>, has_context |-> FALSE, prompted |-> << >>]

\* AIAssistantService.chat on the scored points found; prompted is the
\* context block handed to the completion call, empty when it was not called
chat(found, query, language, llmOk) ==
    IF found = Raised THEN ChatFailure(language)
    ELSE LET context_chunks == Hits(found, Embed(query))
             answer == generate_response(context_chunks, language, llmOk)
         IN  IF answer.kind = "raised" THEN ChatFailure(language)
             ELSE [answer |-> answer,
                   sources |-> Sources(context_chunks),
                   has_context |-> HasContext(context_chunks),
                   prompted |-> ContextText(context_chunks)]

(* ------------------------------- state --------------------------------- *)

VARIABLES
    req,             \* req[j]: the ProcessRAGRequest of job j
    pc,              \* pc[j]: position of job j
    resp,            \* resp[j]: what process_rag_file returned
    acked,           \* acked[j]: the response was sent to the caller
    tempFile,        \* tempFile[j]: the NamedTemporaryFile on disk
    temp_file_path,  \* temp_file_path[j]: the local of process_file_for_rag is set
    text,            \* text[j]: extracted text
    chunks,          \* chunks[j]: result of chunk_text
    embeddings,      \* embeddings[j]: result of create_embeddings
    result,          \* result[j]: statistics returned by process_file_for_rag
    err,             \* err[j]: exception caught by process_rag_background
    posts,           \* posts[j]: callback POSTs issued for job j, in order
    trace,           \* trace[j]: pipeline stages job j has executed, in order
    index,           \* the prizm_rag collection: bag of points
    lastOp           \* response of the latest ingest / delete / chat request

vars == <<req, pc, resp, acked, tempFile, temp_file_path, text, chunks,
          embeddings, result, err, posts, trace, index, lastOp>>

jobData == <<text, chunks, embeddings, result>>

jobVars == <<req, pc, resp, acked, tempFile, temp_file_path, text, chunks,
             embeddings, result, err, posts, trace>>

\* no request has been received: every job slot is free, the index is empty
NoJobs ==
    /\ req = [j \in Jobs |-> NoReq]
    /\ pc = [j \in Jobs |-> "none"]
    /\ resp = [j \in Jobs |-> "none"]
    /\ acked = [j \in Jobs |-> FALSE]
    /\ tempFile = [j \in Jobs |-> "none"]
    /\ temp_file_path = [j \in Jobs |-> FALSE]
    /\ text = [j \in Jobs |-> NoText]
    /\ chunks = [j \in Jobs |-> << >>]
    /\ embeddings = [j \in Jobs |-> << >>]
    /\ result = [j \in Jobs |-> NoResult]
    /\ err = [j \in Jobs |-> "none"]
    /\ posts = [j \in Jobs |-> << >>]
    /\ trace = [j \in Jobs |-> << >>]
    /\ index = EmptyBag

Init == NoJobs /\ lastOp = [op |-> "none"]

(* ---------------------- control flow of one job ------------------------- *)

Stages == <<"downloading", "extracting", "chunking", "embedding", "indexing">>

\* a pipeline that reports before it indexes
FollowingReportFirst(stage) ==
    CASE stage = "downloading" -> "extracting"
      [] stage = "extracting"  -> "chunking"
      [] stage = "chunking"    -> "embedding"
      [] stage = "embedding"   -> "cb_success"
      [] stage = "indexing"    -> "done"

\* the statement following a stage of process_file_for_rag that returned
Following(stage) ==
    CASE stage = "downloading" -> "extracting"
      [] stage = "extracting"  -> "chunking"
      [] stage = "chunking"    -> "embedding"
      [] stage = "embedding"   -> "indexing"
      [] stage = "indexing"    -> "cb_success"

\* a stage whose exception is swallowed: the pipeline carries on
AfterStageContinue(stage, ok) == Following(stage)

\* a stage whose exception ends the job without any callback
AfterStageNoCallback(stage, ok) == IF ok THEN Following(stage) ELSE "done"

\* try/except of process_file_for_rag: a stage that raises is re-raised to
\* process_rag_background, whose except branch sends the FAILURE callback
AfterStage(stage, ok) == IF ok THEN Following(stage) ELSE "cb_failure"

\* finally of process_file_for_rag: unlink the file temp_file_path names
Finally(file, path) == IF path /\ file = "exists" THEN "deleted" ELSE file

\* process_file_for_rag is left when control reaches a callback
Left(p) == p \in {"cb_success", "cb_failure"}

\* a handler that reports an error for an enqueued job
IngestResponseError(enqueued) == "error500"

\* the response of process_rag_file
IngestResponse(enqueued) == IF enqueued THEN "processing" ELSE "error500"

\* a task started inside the handler, before the response is sent
BackgroundReadyAtOnce(j) == TRUE

\* BackgroundTasks run a task added by add_task once the response is sent
BackgroundReady(j) == acked[j]

\* the blob download_file writes into the temporary file
Blob(j) ==
    IF req[j].file_key \in DOMAIN ObjectStore
    THEN ObjectStore[req[j].file_key] ELSE NoText

Callback(status, j, e, delivered) ==
    [status |-> status, file_id |-> req[j].file_id,
     chunks_count |-> IF status = "SUCCESS" THEN result[j].chunks_count ELSE -1,
     vectors_count |-> IF status = "SUCCESS" THEN result[j].vectors_count ELSE -1,
     error |-> e, delivered |-> delivered]

(* ------------------------------ actions -------------------------------- *)

\* POST /ai/rag: add_task, then the accepted body; HTTP 500 if add_task raises
process_rag_file(j, r) ==
    /\ pc[j] = "none"
    /\ \A i \in Jobs : i < j => pc[i] # "none"
    /\ \E enqueued \in BOOLEAN :
        /\ resp' = [resp EXCEPT ![j] = IngestResponse(enqueued)]
        /\ pc' = [pc EXCEPT ![j] = IF enqueued THEN "received" ELSE "rejected"]
        /\ req' = [req EXCEPT ![j] = r]
        /\ lastOp' = [op |-> "ingest", file_id |-> r.file_id,
                      status |-> IngestResponse(enqueued)]
    /\ UNCHANGED <<acked, tempFile, temp_file_path, jobData, err, posts,
                   trace, index>>

\* the framework writes the response of process_rag_file to the caller
SendResponse(j) ==
    /\ pc[j] \in {"received", "rejected"}
    /\ ~acked[j]
    /\ acked' = [acked EXCEPT ![j] = TRUE]
    /\ UNCHANGED <<req, pc, resp, tempFile, temp_file_path, jobData, err,
                   posts, trace, index, lastOp>>

\* process_rag_background starts and calls process_file_for_rag
process_rag_background(j) ==
    /\ pc[j] = "received"
    /\ BackgroundReady(j)
    /\ pc' = [pc EXCEPT ![j] = "downloading"]
    /\ UNCHANGED <<req, resp, acked, tempFile, temp_file_path, jobData, err,
                   posts, trace, index, lastOp>>

\* step 1: create the temporary file, download the object into it
download_file_from_minio(j) ==
    /\ pc[j] = "downloading"
    /\ \E out \in {"ok", "no_temp_file", "s3_error"} :
        LET ok == out = "ok"
            file == IF out = "no_temp_file" THEN "none" ELSE "exists"
            next == AfterStage("downloading", ok)
        IN  /\ ok => req[j].file_key \in DOMAIN ObjectStore
            /\ pc' = [pc EXCEPT ![j] = next]
            /\ temp_file_path' = [temp_file_path EXCEPT ![j] = ok]
            /\ tempFile' = [tempFile EXCEPT ![j] =
                               IF Left(next) THEN Finally(file, ok) ELSE file]
            /\ err' = [err EXCEPT ![j] = IF ok THEN @ ELSE "download"]
    /\ trace' = [trace EXCEPT ![j] = Append(@, "downloading")]
    /\ UNCHANGED <<req, resp, acked, jobData, posts, index, lastOp>>

\* step 2: extract by extension, then the minimum-length check
extract_text_from_file(j) ==
    /\ pc[j] = "extracting"
    /\ \E parsed \in BOOLEAN :
        LET supported == Extension(req[j].file_name) \in SupportedExtensions
            ok == parsed /\ ~TooShort(Blob(j))
            next == AfterStage("extracting", ok)
        IN  /\ parsed => supported
            /\ pc' = [pc EXCEPT ![j] = next]
            /\ text' = [text EXCEPT ![j] = IF parsed THEN Blob(j) ELSE @]
            /\ err' = [err EXCEPT ![j] =
                          IF ok THEN @
                          ELSE IF ~supported THEN "unsupported"
                          ELSE IF ~parsed THEN "extract"
                          ELSE "too_short"]
            /\ tempFile' = [tempFile EXCEPT ![j] =
                               IF Left(next) THEN Finally(@, temp_file_path[j]) ELSE @]
    /\ trace' = [trace EXCEPT ![j] = Append(@, "extracting")]
    /\ UNCHANGED <<req, resp, acked, temp_file_path, chunks, embeddings,
                   result, posts, index, lastOp>>

\* step 3: split the text, reject an empty split
chunk_text_step(j) ==
    /\ pc[j] = "chunking"
    /\ LET cs == chunk_text(text[j])
           ok == cs # << >>
           next == AfterStage("chunking", ok)
       IN  /\ pc' = [pc EXCEPT ![j] = next]
           /\ chunks' = [chunks EXCEPT ![j] = cs]
           /\ err' = [err EXCEPT ![j] = IF ok THEN @ ELSE "no_chunks"]
           /\ tempFile' = [tempFile EXCEPT ![j] =
                              IF Left(next) THEN Finally(@, temp_file_path[j]) ELSE @]
    /\ trace' = [trace EXCEPT ![j] = Append(@, "chunking")]
    /\ UNCHANGED <<req, resp, acked, temp_file_path, text, embeddings,
                   result, posts, index, lastOp>>

\* step 4: one batched embedding call for all chunks
create_embeddings_step(j) ==
    /\ pc[j] = "embedding"
    /\ \E ok \in BOOLEAN :
        LET next == AfterStage("embedding", ok)
        IN  /\ pc' = [pc EXCEPT ![j] = next]
            /\ embeddings' = [embeddings EXCEPT ![j] =
                                 IF ok THEN create_embeddings(chunks[j]) ELSE @]
            /\ err' = [err EXCEPT ![j] = IF ok THEN @ ELSE "embed"]
            /\ tempFile' = [tempFile EXCEPT ![j] =
                               IF Left(next) THEN Finally(@, temp_file_path[j]) ELSE @]
    /\ trace' = [trace EXCEPT ![j] = Append(@, "embedding")]
    /\ UNCHANGED <<req, resp, acked, temp_file_path, text, chunks, result,
                   posts, index, lastOp>>

\* an indexing step that upserts the points one call each: a call that
\* raises comes after the first point was written
insert_vectors_each(j) ==
    /\ pc[j] = "indexing"
    /\ \E ok \in BOOLEAN :
        LET next == AfterStage("indexing", ok)
            pts == BuildPoints(req[j].workspace_id, req[j].file_id,
                               ChunksData(chunks[j], embeddings[j], req[j].file_name))
        IN  /\ pc' = [pc EXCEPT ![j] = next]
            /\ index' = IF ok THEN Upsert(index, pts)
                         ELSE Upsert(index, SubSeq(pts, 1, 1))
            /\ result' = [result EXCEPT ![j] =
                             IF ok THEN [chunks_count |-> Len(chunks[j]),
                                         vectors_count |-> Len(pts)]
                             ELSE @]
            /\ err' = [err EXCEPT ![j] = IF ok THEN @ ELSE "index"]
            /\ tempFile' = [tempFile EXCEPT ![j] =
                               IF Left(next) THEN Finally(@, temp_file_path[j]) ELSE @]
    /\ trace' = [trace EXCEPT ![j] = Append(@, "indexing")]
    /\ UNCHANGED <<req, resp, acked, temp_file_path, text, chunks, embeddings,
                   posts, lastOp>>

\* step 5: build the points, one batched upsert, return the statistics
insert_vectors(j) ==
    /\ pc[j] = "indexing"
    /\ \E ok \in BOOLEAN :
        LET next == AfterStage("indexing", ok)
            pts == BuildPoints(req[j].workspace_id, req[j].file_id,
                               ChunksData(chunks[j], embeddings[j], req[j].file_name))
        IN  /\ pc' = [pc EXCEPT ![j] = next]
            /\ index' = IF ok THEN Upsert(index, pts) ELSE index
            /\ result' = [result EXCEPT ![j] =
                             IF ok THEN [chunks_count |-> Len(chunks[j]),
                                         vectors_count |-> Len(pts)]
                             ELSE @]
            /\ err' = [err EXCEPT ![j] = IF ok THEN @ ELSE "index"]
            /\ tempFile' = [tempFile EXCEPT ![j] =
                               IF Left(next) THEN Finally(@, temp_file_path[j]) ELSE @]
    /\ trace' = [trace EXCEPT ![j] = Append(@, "indexing")]
    /\ UNCHANGED <<req, resp, acked, temp_file_path, text, chunks, embeddings,
                   posts, lastOp>>

\* the SUCCESS callback POST inside the try block of process_rag_background;
\* a POST that raises (connection error, timeout) lands in its except branch
PostSuccess(j) ==
    /\ pc[j] = "cb_success"
    /\ \E delivered \in BOOLEAN :
        /\ posts' = [posts EXCEPT ![j] =
                        Append(@, Callback("SUCCESS", j, "none", delivered))]
        /\ pc' = [pc EXCEPT ![j] = IF delivered THEN "done" ELSE "cb_failure"]
        /\ err' = [err EXCEPT ![j] = IF delivered THEN @ ELSE "callback"]
    /\ UNCHANGED <<req, resp, acked, tempFile, temp_file_path, jobData, trace,
                   index, lastOp>>

\* the FAILURE callback POST of the except branch; its own failure is logged
PostFailure(j) ==
    /\ pc[j] = "cb_failure"
    /\ \E delivered \in BOOLEAN :
        posts' = [posts EXCEPT ![j] =
                     Append(@, Callback("FAILURE", j, err[j], delivered))]
    /\ pc' = [pc EXCEPT ![j] = "done"]
    /\ UNCHANGED <<req, resp, acked, tempFile, temp_file_path, jobData, err,
                   trace, index, lastOp>>

\* a delete that also cancels the jobs of the file that have not upserted yet
delete_rag_vectors_cancelling(w, f) ==
    /\ \E ok \in BOOLEAN :
        /\ index' = IF ok THEN DeleteByFilter(index, w, f) ELSE index
        /\ lastOp' = [op |-> "delete", workspace_id |-> w, file_id |-> f,
                      status |-> IF ok THEN "success" ELSE "error500"]
        /\ pc' = [j \in Jobs |->
                     IF /\ ok
                        /\ req[j].workspace_id = w
                        /\ req[j].file_id = f
                        /\ pc[j] \in {"received", "downloading", "extracting",
                                      "chunking", "embedding", "indexing"}
                     THEN "done" ELSE pc[j]]
    /\ UNCHANGED <<req, resp, acked, tempFile, temp_file_path, jobData,
                   err, posts, trace>>

\* DELETE /ai/rag/workspaces/{workspace_id}/files/{file_id}
delete_rag_vectors(w, f) ==
    /\ \E ok \in BOOLEAN :
        /\ index' = IF ok THEN DeleteByFilter(index, w, f) ELSE index
        /\ lastOp' = [op |-> "delete", workspace_id |-> w, file_id |-> f,
                      status |-> IF ok THEN "success" ELSE "error500"]
    /\ UNCHANGED <<req, pc, resp, acked, tempFile, temp_file_path, jobData,
                   err, posts, trace>>

\* POST /ai/chat: AIAssistantService.chat, its result returned as the body
ai_chat(w, query, language, search_limit) ==
    /\ \E failed \in {"none", "embedding", "search"}, llmOk \in BOOLEAN :
        \E raw \in search_knowledge_base(index, w, query, search_limit, failed) :
            LET body == chat(raw, query, language, llmOk)
            IN  lastOp' =
                    [op |-> "chat", workspace_id |-> w, query |-> query,
                     language |-> language, search_limit |-> search_limit,
                     failed |-> failed, llm_ok |-> llmOk, raw |-> raw,
                     prompted |-> body.prompted,
                     answer |-> body.answer,
                     sources |-> body.sources,
                     has_context |-> body.has_context]
    /\ UNCHANGED <<jobVars, index>>

\* the framework drops a background task that has returned, and a request
\* that was answered
Discard(j) ==
    /\ pc[j] \in {"done", "rejected"}
    /\ acked[j]
    /\ req' = [req EXCEPT ![j] = NoReq]
    /\ pc' = [pc EXCEPT ![j] = "none"]
    /\ resp' = [resp EXCEPT ![j] = "none"]
    /\ acked' = [acked EXCEPT ![j] = FALSE]
    /\ tempFile' = [tempFile EXCEPT ![j] = "none"]
    /\ temp_file_path' = [temp_file_path EXCEPT ![j] = FALSE]
    /\ text' = [text EXCEPT ![j] = NoText]
    /\ chunks' = [chunks EXCEPT ![j] = << >>]
    /\ embeddings' = [embeddings EXCEPT ![j] = << >>]
    /\ result' = [result EXCEPT ![j] = NoResult]
    /\ err' = [err EXCEPT ![j] = "none"]
    /\ posts' = [posts EXCEPT ![j] = << >>]
    /\ trace' = [trace EXCEPT ![j] = << >>]
    /\ UNCHANGED <<index, lastOp>>

JobStep(j) ==
    \/ process_rag_background(j)
    \/ download_file_from_minio(j)
    \/ extract_text_from_file(j)
    \/ chunk_text_step(j)
    \/ create_embeddings_step(j)
    \/ insert_vectors(j)
    \/ PostSuccess(j)
    \/ PostFailure(j)

Next ==
    \/ \E j \in Jobs, r \in Requests : process_rag_file(j, r)
    \/ \E j \in Jobs : SendResponse(j)
    \/ \E j \in Jobs : JobStep(j)
    \/ \E w \in WorkspaceIds, f \in FileIds : delete_rag_vectors(w, f)

Spec == Init /\ [][Next]_vars

Idle == \A i \in Jobs : pc[i] = "none"

\* The index as chat requests see it. The index changes only in the single
\* upsert of a job and in deletes, so its reachable contents are those left
\* by ingestion jobs run one after the other, any number of them, with
\* deletes in between; a chat request reads it between two jobs.
NextChat ==
    \/ \E j \in Jobs, r \in Requests : Idle /\ process_rag_file(j, r)
    \/ \E j \in Jobs : SendResponse(j)
    \/ \E j \in Jobs : JobStep(j)
    \/ \E j \in Jobs : Discard(j)
    \/ \E w \in WorkspaceIds, f \in FileIds : delete_rag_vectors(w, f)
    \/ \E w \in WorkspaceIds, q \in Queries, l \in Languages, n \in SearchLimits :
          Idle /\ ai_chat(w, q, l, n)

ChatSpec == Init /\ [][NextChat]_vars

(* ---------------------------- channel title ---------------------------- *)

\* Characters of a reply of the generative model: the double quote, the
\* single quote, the blank and a letter. A reply is a sequence of them.
DoubleQuote == "dq"
SingleQuote == "sq"
Blank == "sp"
Letter == "x"
Dot == "."
Chars == {DoubleQuote, SingleQuote, Blank, Letter}

\* the character sequences of length at most n
Affixes(n) == UNION {[1..k -> Chars] : k \in 0..n}

\* lengths of the middle part of a reply, around the limit of 50
BodyLens == {0, 1, 45, 47, 49, 52}

Body(n) == [i \in 1..n |-> Letter]

\* replies of the generative model: letters with any characters before and
\* after them
Contents ==
    {a \o Body(n) \o b : a \in Affixes(MaxAffix), b \in Affixes(MaxAffix),
                         n \in BodyLens}

\* str.lstrip(chars)
RECURSIVE LStrip(_, _)
LStrip(t, chars) ==
    IF t # << >> /\ Head(t) \in chars THEN LStrip(Tail(t), chars) ELSE t

\* str.rstrip(chars)
RECURSIVE RStrip(_, _)
RStrip(t, chars) ==
    IF t # << >> /\ t[Len(t)] \in chars
    THEN RStrip(SubSeq(t, 1, Len(t) - 1), chars)
    ELSE t

\* str.strip(chars)
Strip(t, chars) == RStrip(LStrip(t, chars), chars)

\* the whitespace str.strip() removes
Whitespace == {Blank}

\* generate_channel_title from the reply on: strip(), strip('"'), strip("'"),
\* then the cut to 47 characters and "..." when longer than 50
generate_channel_title(content) ==
    LET stripped == Strip(content, Whitespace)
        title == Strip(Strip(stripped, {DoubleQuote}), {SingleQuote})
    IN  IF Len(title) > TitleLimit
        THEN SubSeq(title, 1, TitleKeep) \o <<Dot, Dot, Dot>>
        ELSE title

\* a title request is in, and the reply the generative model will give to it
\* is drawn: one of Contents, or the call raises
TitleInit ==
    /\ NoJobs
    /\ \E language \in Languages, content \in Contents, llmOk \in BOOLEAN :
          lastOp = [op |-> "title_request", language |-> language,
                    llm_ok |-> llmOk,
                    content |-> IF llmOk THEN content ELSE << >>]

\* POST /ai/chat/title: the title, or HTTP 500 when the completion call raises
generate_title ==
    /\ lastOp.op = "title_request"
    /\ lastOp' = [op |-> "title", language |-> lastOp.language,
                  content |-> lastOp.content,
                  status |-> IF lastOp.llm_ok THEN "ok" ELSE "error500",
                  title |-> IF lastOp.llm_ok
                            THEN generate_channel_title(lastOp.content)
                            ELSE << >>]
    /\ UNCHANGED <<jobVars, index>>

NextTitle == generate_title

TitleSpec == TitleInit /\ [][NextTitle]_vars

(* ----------------------------- collection ------------------------------ *)

collection_name == "prizm_rag"

\* the collection _ensure_collection creates
OwnCollection ==
    [name |-> collection_name, size |-> vector_size, distance |-> "Cosine"]

\* collections of other applications the server may hold
OtherCollections ==
    { [name |-> "docs",  size |-> 384,  distance |-> "Cosine"],
      [name |-> "notes", size |-> 1536, distance |-> "Dot"],
      [name |-> "tmp",   size |-> 1536, distance |-> "Cosine"] }

\* client.create_collection: the server refuses a name it already has
create_collection(cols, c) ==
    IF \E d \in DOMAIN cols : d.name = c.name
    THEN [raised |-> TRUE, cols |-> cols]
    ELSE [raised |-> FALSE, cols |-> cols (+) SetToBag({c})]

\* the server before the service starts: any of the other collections, and
\* the service's own one when an earlier run created it
StartupInit ==
    /\ NoJobs
    /\ \E others \in SUBSET OtherCollections, own \in SUBSET {OwnCollection} :
          lastOp = [op |-> "startup", collections |-> SetToBag(others \cup own),
                    calls |-> 0, created |-> 0, listed |-> FALSE,
                    last |-> "none"]

\* an _ensure_collection that creates without looking
ensure_collection_unchecked ==
    /\ lastOp.op = "startup"
    /\ lastOp.calls < MaxCalls
    /\ \E listed \in BOOLEAN :
          LET made == create_collection(lastOp.collections, OwnCollection)
          IN  lastOp' =
                [lastOp EXCEPT
                    !.calls = @ + 1,
                    !.collections = IF listed THEN made.cols ELSE @,
                    !.created = IF listed /\ ~made.raised THEN @ + 1 ELSE @,
                    !.listed = listed,
                    !.last = IF ~listed THEN "raised"
                             ELSE IF made.raised THEN "refused"
                             ELSE "created"]
    /\ UNCHANGED <<jobVars, index>>

\* QdrantService._ensure_collection, run by the constructor of each service
\* object: list the collections, create the own one when its name is not
\* listed; an exception of either call is re-raised ("raised" when the
\* server could not be reached, "refused" when it rejected the creation)
ensure_collection ==
    /\ lastOp.op = "startup"
    /\ lastOp.calls < MaxCalls
    /\ \E listed \in BOOLEAN, createOk \in BOOLEAN :
          LET collection_names == {c.name : c \in DOMAIN lastOp.collections}
              absent == collection_name \notin collection_names
              made == create_collection(lastOp.collections, OwnCollection)
              creates == listed /\ absent /\ createOk /\ ~made.raised
              refused == listed /\ absent /\ createOk /\ made.raised
          IN  lastOp' =
                [lastOp EXCEPT
                    !.calls = @ + 1,
                    !.collections = IF creates THEN made.cols ELSE @,
                    !.created = IF creates THEN @ + 1 ELSE @,
                    !.listed = listed,
                    !.last = IF ~listed THEN "raised"
                             ELSE IF ~absent THEN "exists"
                             ELSE IF creates THEN "created"
                             ELSE IF refused THEN "refused"
                             ELSE "raised"]
    /\ UNCHANGED <<jobVars, index>>

NextStartup == ensure_collection

StartupSpec == StartupInit /\ [][NextStartup]_vars

\* what the code's scheduling guarantees: the framework sends the response
\* and runs the background task, and every outbound call of a job returns,
\* raises or times out
Fairness ==
    \A j \in Jobs : WF_vars(SendResponse(j)) /\ WF_vars(JobStep(j))

FairSpec == Spec /\ Fairness

(* ------------------------------ properties ----------------------------- *)

StepErrors == {"download", "unsupported", "extract", "too_short", "no_chunks",
               "embed", "index"}

\* the stage a step error comes from
StageOf(e) ==
    CASE e = "download" -> "downloading"
      [] e \in {"unsupported", "extract", "too_short"} -> "extracting"
      [] e = "no_chunks" -> "chunking"
      [] e = "embed" -> "embedding"
      [] e = "index" -> "indexing"

IsPrefix(s, t) == Len(s) <= Len(t) /\ \A i \in 1..Len(s) : s[i] = t[i]

\* the points job j writes
PointsOf(j) ==
    Range(BuildPoints(req[j].workspace_id, req[j].file_id,
                      ChunksData(chunks[j], embeddings[j], req[j].file_name)))

Succeeded(j) == result[j] # NoResult

Accepted(j) == pc[j] \notin {"none", "rejected"}

\* one point per id, one copy per point
UniqueIds(idx) ==
    /\ \A p \in DOMAIN idx : idx[p] = 1
    /\ \A p, q \in DOMAIN idx : p.id = q.id => p = q

\* C1: every accepted job sends exactly one callback POST over its lifetime;
\* a POST that failed is followed by no other POST of the job.
C1_ExactlyOneCallback ==
    \A j \in Jobs :
        /\ Len(posts[j]) <= 1
        /\ pc[j] = "done" => Len(posts[j]) = 1

\* C2: a SUCCESS payload is reported only by a job whose pipeline completed,
\* with its counts; a FAILURE payload is reported only by a job one of whose
\* steps failed, with that step's error; a job that upserted never reports
\* FAILURE.
C2_StatusReflectsOutcome ==
    \A j \in Jobs : \A i \in DOMAIN posts[j] :
        /\ posts[j][i].status = "SUCCESS" =>
              /\ Succeeded(j)
              /\ posts[j][i].chunks_count = result[j].chunks_count
              /\ posts[j][i].vectors_count = result[j].vectors_count
        /\ posts[j][i].status = "FAILURE" =>
              /\ ~Succeeded(j)
              /\ posts[j][i].error \in StepErrors

\* C8: when a job has left the pipeline, the temporary file its download
\* step created no longer exists.
C8_TempFileRemoved ==
    \A j \in Jobs :
        pc[j] \in {"cb_success", "cb_failure", "done"} => tempFile[j] # "exists"

\* a step of delete_rag_vectors(w, f) that was acknowledged with success
DeleteStep(w, f) ==
    /\ UNCHANGED jobVars
    /\ lastOp' = [op |-> "delete", workspace_id |-> w, file_id |-> f,
                  status |-> "success"]

\* every point of workspace w in idx is found by a search of w whose limit
\* covers the collection
Searchable(idx, w) ==
    \A p \in {q \in DOMAIN idx : q.payload.workspace_id = w} :
        \A hits \in search(idx, w, Embed([tag |-> 1, pos |-> 0, len |-> 20]),
                           Cardinality(DOMAIN idx)) :
            \E i \in DOMAIN hits : hits[i].id = p.id

\* C4: delete_by_scope(W, F) removes every point with workspace W and file F
\* and nothing else: every other point stays in the index, unchanged and
\* searchable; with no matching point the index is unchanged and the call
\* succeeds.
C4_DeleteExactScope ==
    [][\A w \in WorkspaceIds, f \in FileIds :
          DeleteStep(w, f) =>
              /\ \A p \in DOMAIN index :
                    IF p.payload.workspace_id = w /\ p.payload.file_id = f
                    THEN p \notin DOMAIN index'
                    ELSE p \in DOMAIN index' /\ index'[p] = index[p]
              /\ DOMAIN index' \subseteq DOMAIN index
              /\ \A v \in WorkspaceIds : Searchable(index', v)]_vars

\* a successful delete of (W, F) took out the points a job had written for
\* (W, F) while points of another scope are still in the index
C4_Witness ==
    /\ lastOp.op = "delete"
    /\ lastOp.status = "success"
    /\ \E j \in Jobs :
          /\ Succeeded(j)
          /\ req[j].workspace_id = lastOp.workspace_id
          /\ req[j].file_id = lastOp.file_id
    /\ \A p \in DOMAIN index :
          ~(p.payload.workspace_id = lastOp.workspace_id
              /\ p.payload.file_id = lastOp.file_id)
    /\ \E p \in DOMAIN index :
          p.payload.workspace_id = lastOp.workspace_id
              \/ p.payload.file_id = lastOp.file_id

\* C5: a second run of the pipeline on the same (workspace, file, content),
\* made while the points of the first run are in the index, writes the same
\* point ids and leaves the index as it was, with one point per id.
C5_IdempotentReingest ==
    [][\A i, j \in Jobs :
          ( /\ i # j
            /\ Succeeded(i)
            /\ req[i] = req[j]
            /\ PointsOf(i) \subseteq DOMAIN index
            /\ pc[j] = "indexing"
            /\ pc'[j] = "cb_success" )
          => /\ {p.id : p \in PointsOf(j)} = {p.id : p \in PointsOf(i)}
             /\ index' = index
             /\ UniqueIds(index')]_vars

\* two runs of the same request have both upserted and the index holds
\* exactly the points of one run
C5_Witness ==
    \E i, j \in Jobs :
        /\ i # j
        /\ req[i] = req[j]
        /\ Succeeded(i)
        /\ Succeeded(j)
        /\ DOMAIN index = PointsOf(i)
        /\ Cardinality(DOMAIN index) = result[j].vectors_count
        /\ result[j].vectors_count > 1

\* C6: a job does nothing (no stage, no temporary file, no callback) and does
\* not leave the received state before the accepted response of its ingest
\* request has been returned.
C6_AckBeforeProgress ==
    \A j \in Jobs :
        ( \/ pc[j] \notin {"none", "received", "rejected"}
          \/ trace[j] # << >>
          \/ posts[j] # << >>
          \/ tempFile[j] # "none" )
        => acked[j] /\ resp[j] = "processing"

\* a job is past the received state, its response acknowledged
C6_Witness ==
    \E j \in Jobs : pc[j] = "downloading" /\ acked[j] /\ trace[j] = << >>

\* C7: the response of an ingest request is the accepted body whenever the
\* job was enqueued, whatever the job does later; an error response means the
\* job was never enqueued; a response, once returned, is never changed.
C7_FailuresNotSynchronous ==
    /\ [](\A j \in Jobs :
            /\ Accepted(j) => resp[j] = "processing"
            /\ resp[j] = "error500" =>
                  pc[j] = "rejected" /\ trace[j] = << >> /\ posts[j] = << >>)
    /\ [][\A j \in Jobs : resp[j] # "none" => resp'[j] = resp[j]]_vars

\* a job failed in a step, even its FAILURE callback was not delivered, and
\* the response of its request is still the accepted body
C7_Witness ==
    \E j \in Jobs :
        /\ pc[j] = "done"
        /\ err[j] \in StepErrors
        /\ \A i \in DOMAIN posts[j] : ~posts[j][i].delivered
        /\ resp[j] = "processing"

\* C9: the stages a job has executed are a prefix of download, extract,
\* chunk, embed, index (in order, each at most once); after the first stage
\* that fails the job is failed and executes no further stage.
C9_StagesSequentialNoRetry ==
    \A j \in Jobs :
        /\ IsPrefix(trace[j], Stages)
        /\ err[j] # "none" => pc[j] \in {"cb_failure", "done"}
        /\ err[j] \in StepErrors =>
              /\ trace[j] # << >>
              /\ trace[j][Len(trace[j])] = StageOf(err[j])
              /\ ~Succeeded(j)
        /\ err[j] \in StepErrors \ {"index"} =>
              embeddings[j] = << >> /\ PointsOf(j) = {}

\* a job failed in extraction and ended without embedding or upsert
C9_Witness ==
    \E j \in Jobs :
        /\ pc[j] = "done"
        /\ err[j] = "extract"
        /\ trace[j] = <<"downloading", "extracting">>

\* C10: every accepted job eventually ends, with its pipeline succeeded or
\* failed and a callback POST attempted.
C10_JobTerminates ==
    \A j \in Jobs :
        (pc[j] = "received") ~>
            ( /\ pc[j] = "done"
              /\ Len(posts[j]) >= 1
              /\ (Succeeded(j) \/ err[j] \in StepErrors) )

\* a job ended after its callback was attempted
C10_Witness ==
    \E j \in Jobs : pc[j] = "done" /\ acked[j] /\ posts[j] # << >>

\* the points a successful ingestion of request r writes
IngestedPoints(r) ==
    IF r.file_key \in DOMAIN ObjectStore
    THEN LET cs == chunk_text(ObjectStore[r.file_key])
         IN  Range(BuildPoints(r.workspace_id, r.file_id,
                               ChunksData(cs, create_embeddings(cs), r.file_name)))
    ELSE {}

\* C3: the points a search of workspace W returns all have payload workspace
\* W, whatever the scores of the other workspaces' points, and every source
\* of a chat answer for W is a point that an ingestion for W writes.
C3_SearchWorkspaceIsolation ==
    lastOp.op = "chat" =>
        /\ \A i \in DOMAIN lastOp.raw :
              lastOp.raw[i].payload.workspace_id = lastOp.workspace_id
        /\ \A i \in DOMAIN lastOp.sources :
              \E r \in Requests :
                  /\ r.workspace_id = lastOp.workspace_id
                  /\ r.file_id = lastOp.sources[i].file_id
                  /\ lastOp.raw[i] \in IngestedPoints(r)

\* a chat of W got results although a point of another workspace in the
\* index scores higher than all of them
C3_Witness ==
    /\ lastOp.op = "chat"
    /\ lastOp.sources # << >>
    /\ \E p \in DOMAIN index :
          /\ p.payload.workspace_id # lastOp.workspace_id
          /\ \A i \in DOMAIN lastOp.raw :
                Score(Embed(lastOp.query), p.vector)
                    > Score(Embed(lastOp.query), lastOp.raw[i].vector)

\* the upsert step of job j
UpsertStep(j) == pc[j] = "indexing" /\ pc'[j] = "cb_success"

\* the points in idx that carry chunk i of job j under the id of that chunk
ChunkPoints(idx, j, i) ==
    {p \in DOMAIN idx :
        /\ p.id = PointId(req[j].workspace_id, req[j].file_id, i)
        /\ p.payload.workspace_id = req[j].workspace_id
        /\ p.payload.file_id = req[j].file_id
        /\ p.payload.chunk_index = i
        /\ p.payload.text = chunks[j][i + 1]
        /\ p.vector = Embed(chunks[j][i + 1])}

\* C11: the upsert of a successful job writes exactly one point per chunk, for
\* the chunk indices 0..n-1 with the id of (workspace, file, index), and the
\* job reports vectors_count = chunks_count = n, the number of points written.
C11_OnePointPerChunk ==
    /\ [](\A j \in Jobs :
            Succeeded(j) =>
                /\ result[j].chunks_count = Len(chunks[j])
                /\ result[j].vectors_count = result[j].chunks_count
                /\ Cardinality(PointsOf(j)) = result[j].vectors_count
                /\ {p.payload.chunk_index : p \in PointsOf(j)}
                      = 0..(Len(chunks[j]) - 1))
    /\ [][\A j \in Jobs :
            UpsertStep(j) =>
                /\ Succeeded(j)'
                /\ \A i \in 0..(Len(chunks[j]) - 1) :
                      /\ Cardinality(ChunkPoints(index', j, i)) = 1
                      /\ \A p \in ChunkPoints(index', j, i) : index'[p] = 1
                /\ \A p \in DOMAIN index' :
                      p \in DOMAIN index
                          \/ \E i \in 0..(Len(chunks[j]) - 1) :
                                p \in ChunkPoints(index', j, i)]_vars

\* a job of three chunks succeeded: three points, three vectors reported, the
\* points in the index
C11_Witness ==
    \E j \in Jobs :
        /\ Succeeded(j)
        /\ result[j].vectors_count = 3
        /\ Len(chunks[j]) = 3
        /\ PointsOf(j) \subseteq DOMAIN index

\* the points of workspace w in idx
WorkspacePoints(idx, w) == {p \in DOMAIN idx : p.payload.workspace_id = w}

\* In ChatSpec a chat record in lastOp is the last operation on the index: a
\* delete and the start of a job both overwrite lastOp, so the index of such
\* a state is the index the chat read.

\* C12: has_context of a chat answer is true exactly when the results
\* retrieved from the index, before the cut to three sources, are not empty;
\* a chat on a workspace without indexed points has has_context false, no
\* sources, and an answer, generated over the no-relevant-documents
\* placeholder when the generative call succeeds.
C12_HasContextIffRetrieved ==
    lastOp.op = "chat" =>
        /\ lastOp.has_context <=> lastOp.raw # << >>
        /\ WorkspacePoints(index, lastOp.workspace_id) = {} =>
              /\ ~lastOp.has_context
              /\ lastOp.sources = << >>
              /\ lastOp.answer.kind \in {"generated", "apology"}
              /\ lastOp.llm_ok =>
                    /\ lastOp.answer.kind = "generated"
                    /\ lastOp.answer.context = <<"no_relevant_documents">>

\* a chat whose search worked, on a workspace without points while another
\* workspace has some, was answered without context
C12_Witness ==
    /\ lastOp.op = "chat"
    /\ lastOp.failed = "none"
    /\ lastOp.search_limit = 5
    /\ WorkspacePoints(index, lastOp.workspace_id) = {}
    /\ DOMAIN index # {}
    /\ ~lastOp.has_context
    /\ lastOp.answer.kind = "generated"

\* C13: the sources of a chat answer are the first min(3, n) of the n
\* retrieved results, in the order the index search returned them, which is
\* by descending score and at most search_limit long; each source carries the
\* file id and the score of its result.
C13_SourcesAreTopRanked ==
    lastOp.op = "chat" =>
        LET n == Len(lastOp.raw)
            q == Embed(lastOp.query)
        IN  /\ n <= lastOp.search_limit
            /\ Len(lastOp.sources) = IF n < 3 THEN n ELSE 3
            /\ \A i \in DOMAIN lastOp.sources :
                  /\ lastOp.sources[i].file_id = lastOp.raw[i].payload.file_id
                  /\ lastOp.sources[i].score = Score(q, lastOp.raw[i].vector)
            /\ \A i, k \in DOMAIN lastOp.raw :
                  i < k => Score(q, lastOp.raw[i].vector)
                              >= Score(q, lastOp.raw[k].vector)

\* four results of two files were retrieved and the three sources are the
\* first three of them, of different scores
C13_Witness ==
    /\ lastOp.op = "chat"
    /\ Len(lastOp.raw) = 4
    /\ Len(lastOp.sources) = 3
    /\ lastOp.sources[1].score > lastOp.sources[3].score
    /\ \E i, k \in DOMAIN lastOp.raw :
          lastOp.raw[i].payload.file_id # lastOp.raw[k].payload.file_id

\* C14: when the embedding of the query or the index search fails, the chat
\* goes on with no retrieved result: the generative call is still made, with
\* the no-relevant-documents placeholder as context, and the result has no
\* sources and has_context false.
C14_RetrievalFailureDegrades ==
    (lastOp.op = "chat" /\ lastOp.failed # "none") =>
        /\ lastOp.raw = << >>
        /\ lastOp.prompted = <<"no_relevant_documents">>
        /\ lastOp.sources = << >>
        /\ ~lastOp.has_context
        /\ lastOp.llm_ok =>
              /\ lastOp.answer.kind = "generated"
              /\ lastOp.answer.context = <<"no_relevant_documents">>

\* the search failed on a workspace that has points and the answer was
\* generated over the placeholder
C14_Witness ==
    /\ lastOp.op = "chat"
    /\ lastOp.failed = "search"
    /\ WorkspacePoints(index, lastOp.workspace_id) # {}
    /\ lastOp.answer.kind = "generated"
    /\ lastOp.prompted = <<"no_relevant_documents">>

\* C15: whatever fails among embedding, search and the generative call, a
\* chat returns an answer, a source list and has_context; when the generative
\* call fails the answer is the apology of the request's language (the Korean
\* one for a language without its own), and sources and has_context are
\* those of the retrieved results.
C15_ChatAlwaysAnswers ==
    lastOp.op = "chat" =>
        /\ lastOp.answer.kind \in {"generated", "apology"}
        /\ lastOp.has_context \in BOOLEAN
        /\ Len(lastOp.sources) <= Len(lastOp.raw)
        /\ lastOp.llm_ok <=> lastOp.answer.kind = "generated"
        /\ ~lastOp.llm_ok =>
              /\ lastOp.answer.system =
                    IF lastOp.language = "en" THEN "apology_en" ELSE "apology_ko"
              /\ lastOp.answer.context = << >>
              /\ Len(lastOp.sources) = Min(3, Len(lastOp.raw))
              /\ \A i \in DOMAIN lastOp.sources :
                    lastOp.sources[i].file_id = lastOp.raw[i].payload.file_id
              /\ lastOp.has_context <=> lastOp.raw # << >>

\* the generative call failed after results were retrieved: the answer is
\* the apology and the sources are there
C15_Witness ==
    /\ lastOp.op = "chat"
    /\ ~lastOp.llm_ok
    /\ lastOp.failed = "none"
    /\ lastOp.language = "fr"
    /\ lastOp.answer.kind = "apology"
    /\ lastOp.sources # << >>
    /\ lastOp.has_context

Quotes == {DoubleQuote, SingleQuote}

\* C16: whatever the generative model replies, the channel title has at most
\* 50 characters, a title cut to that length ends with an ellipsis, and the
\* title neither starts nor ends with a double or single quote.
C16_TitleCappedAndUnquoted ==
    (lastOp.op = "title" /\ lastOp.status = "ok") =>
        LET title == lastOp.title
        IN  /\ Len(title) <= 50
            /\ Cardinality({i \in DOMAIN lastOp.content :
                                lastOp.content[i] = Letter}) > 50 =>
                  Len(title) = 50 /\ SubSeq(title, 48, 50) = <<Dot, Dot, Dot>>
            /\ title # << >> =>
                  /\ title[1] \notin Quotes
                  /\ title[Len(title)] \notin Quotes

\* the extensions the text extractor of the service dispatches on
ExtractorExtensions ==
    {".pdf", ".doc", ".docx", ".xls", ".xlsx", ".ppt", ".pptx", ".hwp", ".hwpx",
     ".txt", ".log", ".md", ".markdown", ".json", ".xml", ".yaml", ".yml", ".csv"}

\* C17: the extraction step of a job fails with the unsupported-type error
\* exactly when the extension of the display name, lower-cased, is none of
\* the extensions of the text extractor's families (PDF, word processor,
\* spreadsheet, presentation, legacy word processor, txt/log/md/csv/json/
\* xml/yaml).
C17_ExtractionCoversFamilies ==
    \A j \in Jobs :
        Len(trace[j]) >= 2 =>
            ( err[j] = "unsupported"
                <=> Extension(req[j].file_name) \notin ExtractorExtensions )

\* job j has run none of the stages after extraction and has reported, if
\* anything, the failure e
FailedBeforeEmbedding(j, e) ==
    /\ pc[j] \in {"cb_failure", "done"}
    /\ err[j] = e
    /\ "embedding" \notin Range(trace[j])
    /\ "indexing" \notin Range(trace[j])
    /\ embeddings[j] = << >>
    /\ ~Succeeded(j)
    /\ \A i \in DOMAIN posts[j] :
          posts[j][i].status = "FAILURE" /\ posts[j][i].error = e
    /\ pc[j] = "done" => Len(posts[j]) = 1

\* C18: a job whose extracted text has fewer than 10 characters after
\* trimming, or whose split has no chunk, fails without a call of the
\* embedding service and without an upsert, and its callback is one FAILURE
\* payload.
C18_ShortTextFailsBeforeEmbedding ==
    \A j \in Jobs :
        /\ (text[j] # NoText /\ text[j].slen < 10) =>
              FailedBeforeEmbedding(j, "too_short")
        /\ (text[j] # NoText /\ text[j].slen >= 10 /\ "chunking" \in Range(trace[j])
               /\ chunks[j] = << >>) =>
              FailedBeforeEmbedding(j, "no_chunks")

\* a text of twelve characters, nine of them after trimming, was extracted
\* and the job ended with its FAILURE callback
C18_Witness ==
    \E j \in Jobs :
        /\ pc[j] = "done"
        /\ text[j].len = 12
        /\ text[j].slen = 9
        /\ err[j] = "too_short"
        /\ trace[j] = <<"downloading", "extracting">>
        /\ Len(posts[j]) = 1
        /\ posts[j][1].status = "FAILURE"

\* C19: a step of a job changes the index only when it is the upsert of a job
\* that succeeds, and then all points of the job are written at once; a job
\* that failed in a step has embedded all of its chunks or none and has left
\* the index as it was.
C19_FailedJobWritesNothing ==
    /\ [](\A j \in Jobs :
            /\ embeddings[j] = << >> \/ Len(embeddings[j]) = Len(chunks[j])
            /\ err[j] \in StepErrors => ~Succeeded(j))
    /\ [][\A j \in Jobs :
            pc'[j] # pc[j] =>
                \/ index' = index
                \/ /\ UpsertStep(j)
                   /\ Succeeded(j)'
                   /\ err'[j] = "none"
                   /\ PointsOf(j) \subseteq DOMAIN index']_vars

\* a job failed in its upsert call while the index holds exactly the points
\* of an earlier content of the same file
C19_Witness ==
    \E i, j \in Jobs :
        /\ i # j
        /\ Succeeded(i)
        /\ DOMAIN index = PointsOf(i)
        /\ pc[j] = "done"
        /\ err[j] = "index"
        /\ Len(embeddings[j]) = 3
        /\ req[j].workspace_id = req[i].workspace_id
        /\ req[j].file_id = req[i].file_id
        /\ req[j].file_key # req[i].file_key

\* the points of the file of job j in idx
FilePoints(idx, j) ==
    {p \in DOMAIN idx : /\ p.payload.workspace_id = req[j].workspace_id
                        /\ p.payload.file_id = req[j].file_id}

\* C20: the upsert of a job with n' chunks replaces, among the points of its
\* file in the index, those of chunk indices 0..n'-1 and no other: a point of
\* the file with a chunk index from n' on, left by an earlier ingestion of
\* longer content, stays in the index with its text and is found by a search
\* of its workspace.
C20_StaleChunksRemain ==
    [][\A j \in Jobs :
          UpsertStep(j) =>
              LET n == Len(chunks[j])
              IN  /\ \A p \in FilePoints(index, j) :
                        IF p.payload.chunk_index >= n
                        THEN p \in DOMAIN index' /\ index'[p] = index[p]
                        ELSE p \in DOMAIN index' => p \in PointsOf(j)
                  /\ \A p \in DOMAIN index \ FilePoints(index, j) :
                        p \in DOMAIN index' /\ index'[p] = index[p]
                  /\ {p.payload.chunk_index : p \in FilePoints(index', j)}
                        = {p.payload.chunk_index : p \in FilePoints(index, j)}
                              \cup (0..(n - 1))
                  /\ Searchable(index', req[j].workspace_id)]_vars

\* a file of three chunks was ingested again with content of one chunk: the
\* index holds the new chunk 0 and the old chunks 1 and 2
C20_Witness ==
    \E i, j \in Jobs :
        /\ i # j
        /\ Succeeded(i)
        /\ Succeeded(j)
        /\ req[i].workspace_id = req[j].workspace_id
        /\ req[i].file_id = req[j].file_id
        /\ Len(chunks[i]) = 3
        /\ Len(chunks[j]) = 1
        /\ DOMAIN index =
              PointsOf(j) \cup {p \in PointsOf(i) : p.payload.chunk_index >= 1}
        /\ Cardinality(DOMAIN index) = 3
        /\ \E p, q \in DOMAIN index :
              /\ p.payload.chunk_index = 0
              /\ q.payload.chunk_index = 2
              /\ p.payload.text.tag # q.payload.text.tag

\* the points of idx for chunk i of the file of job j
SlotPoints(idx, j, i) ==
    {p \in FilePoints(idx, j) : p.payload.chunk_index = i}

\* C21: when jobs for the same (workspace, file) run at the same time, the
\* index holds at most one point per (workspace, file, chunk index), each
\* point is, vector and payload, a point of one ingestion, and after the
\* upsert of a job the point of each chunk index the job wrote is that job's:
\* the upsert executed last wins.
C21_LastUpsertWins ==
    /\ [](\A p \in DOMAIN index :
            /\ index[p] = 1
            /\ \E r \in Requests : p \in IngestedPoints(r)
            /\ \A q \in DOMAIN index :
                  ( /\ q.payload.workspace_id = p.payload.workspace_id
                    /\ q.payload.file_id = p.payload.file_id
                    /\ q.payload.chunk_index = p.payload.chunk_index ) => q = p)
    /\ [][\A j \in Jobs :
            UpsertStep(j) =>
                \A i \in 0..(Len(chunks[j]) - 1) :
                    /\ Cardinality(SlotPoints(index', j, i)) = 1
                    /\ SlotPoints(index', j, i) = ChunkPoints(index', j, i)]_vars

\* two jobs for the same file with different content have both upserted and
\* neither has sent its callback yet; the index holds the three points of
\* the one that upserted last and nothing of the other
C21_Witness ==
    \E i, j \in Jobs :
        /\ i # j
        /\ pc[i] = "cb_success"
        /\ pc[j] = "cb_success"
        /\ req[i].workspace_id = req[j].workspace_id
        /\ req[i].file_id = req[j].file_id
        /\ req[i].file_key # req[j].file_key
        /\ Len(chunks[i]) = 3
        /\ Len(chunks[j]) = 1
        /\ DOMAIN index = PointsOf(i)
        /\ PointsOf(j) \cap DOMAIN index = {}

\* C23: the text preview of a chat source is the text of its chunk when that
\* has at most 200 characters, and otherwise the first 200 characters of it
\* followed by the ellipsis; the ellipsis is there exactly when the text was
\* cut.
C23_PreviewCutAt200 ==
    lastOp.op = "chat" =>
        /\ \A i \in DOMAIN lastOp.sources :
              LET chunk == lastOp.raw[i].payload.text
                  preview == lastOp.sources[i].text_preview
              IN  /\ preview.tag = chunk.tag
                  /\ preview.pos = chunk.pos
                  /\ preview.len = IF chunk.len <= 200 THEN chunk.len ELSE 200
                  /\ preview.ellipsis <=> chunk.len > 200
                  /\ preview.ellipsis <=> preview.len < chunk.len
        /\ \A n \in 199..201 :
              LET preview == TextPreview([tag |-> lastOp.query.tag, pos |-> 0,
                                          len |-> n])
              IN  /\ preview.len = IF n = 201 THEN 200 ELSE n
                  /\ preview.ellipsis <=> n = 201

\* a chat has a source of a chunk of 150 characters, given whole, and a
\* source of a chunk of 1000 characters, cut to 200 and marked
C23_Witness ==
    /\ lastOp.op = "chat"
    /\ \E i, k \in DOMAIN lastOp.sources :
          /\ lastOp.raw[i].payload.text.len = 150
          /\ lastOp.sources[i].text_preview.len = 150
          /\ ~lastOp.sources[i].text_preview.ellipsis
          /\ lastOp.raw[k].payload.text.len = 1000
          /\ lastOp.sources[k].text_preview.len = 200
          /\ lastOp.sources[k].text_preview.ellipsis

\* the points in the index and those the jobs have built
KnownPoints == DOMAIN index \cup UNION {PointsOf(j) : j \in Jobs}

\* the (workspace, file, chunk index) of a point
Triple(p) == <<p.payload.workspace_id, p.payload.file_id, p.payload.chunk_index>>

\* C24: every point in the index has the id workspace_file_chunk-index of its
\* own payload, different (workspace, file, chunk index) triples have
\* different ids, and the upsert of a job for (W, F) leaves every point of
\* another (workspace, file) pair in the index as it was.
C24_IdsSeparateFiles ==
    /\ [](\A p \in DOMAIN index :
            p.id = ToString(p.payload.workspace_id) \o "_"
                     \o ToString(p.payload.file_id) \o "_"
                     \o ToString(p.payload.chunk_index))
    /\ [](\A p, q \in KnownPoints : Triple(p) # Triple(q) => p.id # q.id)
    /\ [][\A j \in Jobs :
            pc'[j] # pc[j] =>
                \A p \in DOMAIN index \ FilePoints(index, j) :
                    p \in DOMAIN index' /\ index'[p] = index[p]]_vars

\* the jobs for file 1 of workspace 11 and for file 11 of workspace 1 have
\* both upserted and the points of both are in the index
C24_Witness ==
    \E i, j \in Jobs :
        /\ Succeeded(i)
        /\ Succeeded(j)
        /\ req[i].workspace_id = 11 /\ req[i].file_id = 1
        /\ req[j].workspace_id = 1 /\ req[j].file_id = 11
        /\ PointsOf(i) \cup PointsOf(j) = DOMAIN index
        /\ Cardinality(DOMAIN index) = Len(chunks[i]) + Len(chunks[j])

\* job j is accepted, has not executed its upsert, and the latest request
\* answered is a successful delete of its (workspace, file): a request for a
\* job overwrites lastOp, so that delete came after job j was accepted
DeletedBeforeUpsert(j) ==
    /\ pc[j] \in {"received", "downloading", "extracting", "chunking",
                  "embedding", "indexing"}
    /\ lastOp.op = "delete"
    /\ lastOp.status = "success"
    /\ lastOp.workspace_id = req[j].workspace_id
    /\ lastOp.file_id = req[j].file_id

\* C25: a delete of (W, F) changes nothing of any job; a job for (W, F) that
\* was accepted and had not upserted when the delete was acknowledged goes on
\* to its end and attempts its callback, and when its upsert succeeds all
\* its points are in the index.
C25_DeleteDoesNotCancel ==
    /\ [][(lastOp'.op = "delete" /\ lastOp' # lastOp) => UNCHANGED jobVars]_vars
    /\ [][\A j \in Jobs :
            (DeletedBeforeUpsert(j) /\ UpsertStep(j)) =>
                /\ Succeeded(j)'
                /\ PointsOf(j) # {}
                /\ PointsOf(j) \subseteq DOMAIN index']_vars
    /\ \A j \in Jobs :
          DeletedBeforeUpsert(j) ~> (pc[j] = "done" /\ Len(posts[j]) >= 1)

\* the only job of a file upserted after a delete of the file was
\* acknowledged during its run: the job has ended, its SUCCESS callback was
\* delivered and its points are in the index
C25_Witness ==
    /\ lastOp.op = "delete"
    /\ lastOp.status = "success"
    /\ \E j \in Jobs :
          /\ req[j].workspace_id = lastOp.workspace_id
          /\ req[j].file_id = lastOp.file_id
          /\ pc[j] = "done"
          /\ Succeeded(j)
          /\ posts[j] # << >>
          /\ posts[j][1].status = "SUCCESS"
          /\ posts[j][1].delivered
          /\ DOMAIN index = PointsOf(j)
          /\ Cardinality(PointsOf(j)) = 3
          /\ \A i \in Jobs \ {j} : pc[i] = "none"

\* a SUCCESS payload is among the callback POSTs of job j
SuccessPosted(j) ==
    \E i \in DOMAIN posts[j] : posts[j][i].status = "SUCCESS"

\* a step that deletes the points of the file of job j
DeletesFileOf(j) ==
    /\ pc' = pc
    /\ lastOp'.op = "delete"
    /\ lastOp'.workspace_id = req[j].workspace_id
    /\ lastOp'.file_id = req[j].file_id

\* C26: the SUCCESS callback of a job is posted only after the upsert of the
\* job has returned: the upsert step, made before any POST, writes all
\* chunks_count points of the job, the POST is made from the state the upsert
\* leads to, and between the two a point of the job leaves the index only
\* by a delete of its file or by the upsert of another job of the same file.
C26_SuccessAfterUpsert ==
    /\ [](\A j \in Jobs :
            SuccessPosted(j) =>
                /\ Succeeded(j)
                /\ trace[j] = Stages
                /\ posts[j][1].status = "SUCCESS"
                /\ posts[j][1].chunks_count = Len(chunks[j])
                /\ posts[j][1].chunks_count = Cardinality(PointsOf(j)))
    /\ [][\A j \in Jobs :
            /\ UpsertStep(j) =>
                  posts[j] = << >> /\ PointsOf(j) \subseteq DOMAIN index'
            /\ (~SuccessPosted(j) /\ SuccessPosted(j)') =>
                  pc[j] = "cb_success" /\ Succeeded(j)
            /\ ( /\ pc[j] = "cb_success"
                  /\ PointsOf(j) \subseteq DOMAIN index
                  /\ ~(PointsOf(j) \subseteq DOMAIN index') ) =>
                  \/ DeletesFileOf(j)
                  \/ \E i \in Jobs \ {j} :
                        /\ UpsertStep(i)
                        /\ req[i].workspace_id = req[j].workspace_id
                        /\ req[i].file_id = req[j].file_id]_vars

\* the SUCCESS callback of a job of three chunks was delivered with
\* chunks_count 3 and the three points are in the index
C26_Witness ==
    \E j \in Jobs :
        /\ pc[j] = "done"
        /\ Len(posts[j]) = 1
        /\ posts[j][1].status = "SUCCESS"
        /\ posts[j][1].delivered
        /\ posts[j][1].chunks_count = 3
        /\ posts[j][1].vectors_count = 3
        /\ PointsOf(j) \subseteq DOMAIN index
        /\ lastOp.op = "ingest"

\* the collections of the service's name in a bag of collections
OwnCollections(cols) == {c \in DOMAIN cols : c.name = collection_name}

\* C22: _ensure_collection creates the collection of 1536 dimensions and
\* cosine distance when its name is not on the server; when it is, the call
\* creates nothing and raises nothing; it never touches another collection;
\* after any number of calls that returned, the server holds exactly one
\* such collection.
C22_EnsureCollectionIdempotent ==
    /\ [](lastOp.op = "startup" =>
            /\ \A c \in DOMAIN lastOp.collections : lastOp.collections[c] = 1
            /\ Cardinality(OwnCollections(lastOp.collections)) <= 1
            /\ lastOp.created <= 1
            /\ lastOp.last # "refused"
            /\ lastOp.last \in {"exists", "created"} =>
                  OwnCollections(lastOp.collections) = {OwnCollection})
    /\ [][(lastOp.op = "startup" /\ lastOp'.calls = lastOp.calls + 1) =>
            /\ \A c \in DOMAIN lastOp.collections :
                  c \in DOMAIN lastOp'.collections
            /\ OwnCollections(lastOp.collections) # {} =>
                  /\ lastOp'.collections = lastOp.collections
                  /\ lastOp'.created = lastOp.created
                  /\ lastOp'.listed => lastOp'.last = "exists"
            /\ lastOp'.last = "created" =>
                  /\ OwnCollections(lastOp.collections) = {}
                  /\ lastOp'.collections
                        = lastOp.collections (+) SetToBag({OwnCollection})
            /\ (lastOp.last = "exists" /\ lastOp'.last = "raised") =>
                  lastOp'.collections = lastOp.collections]_vars

\* both service objects have run _ensure_collection on a server that has
\* other collections: the first call created the collection, the second
\* found it
C22_Witness ==
    /\ lastOp.op = "startup"
    /\ lastOp.calls = 2
    /\ lastOp.created = 1
    /\ lastOp.last = "exists"
    /\ OwnCollections(lastOp.collections) = {OwnCollection}
    /\ Cardinality(DOMAIN lastOp.collections) = 3

====
